---- MODULE Spec2Model ----
(***************************************************************************)
(* JSON2CV: the main thread of src/main/main.cpp, the lazily initialised   *)
(* logger of src/main/inilogger.{hpp,cpp}, the command line options of     *)
(* src/structs/CmdArgs.hpp, and the job dispatcher (ThdDispatcher), the    *)
(* argument parser (ArgParser) and the updater (DllUpdater) that main.cpp  *)
(* calls.  The last three are declared in headers that main.cpp includes   *)
(* but their bodies are not part of the sources at hand; they are modelled *)
(* from the design document (spec.md sections 3, 4.1, 5, 6 and 7).          *)
(***************************************************************************)
EXTENDS Naturals, Sequences, FiniteSets, TLC

\* ------------------------------------------------------------------ bounds
\* Rendering stages of one Compilation Unit; the last stage writes the artifact.
NumStages == 2
\* Threads other than main that call IniLogger::log in LogSpec.
NumCallers == 2
\* Calls of IniLogger::log each such thread makes.
MaxCalls == 2
\* Calls of ThdDispatcher::join the client of JoinSpec makes.
MaxJoins == 2

\* --------------------------------------------------------------- constants
\* inilogger.hpp:9  mainLogger = nullptr
nullptr == 0

Kinds == {"cv", "cl"}
\* std::optional<std::string>: "absent" is std::nullopt; a present path names a
\* valid document ("good"), a readable but malformed one ("bad") or no readable
\* file ("missing").
Paths == {"absent", "good", "bad", "missing"}
Terminal == {"Succeeded", "Failed", "Interrupted"}
\* main.cpp:6  the thread that runs main()
MainThread == 0
Callers == 1..NumCallers
Threads == {MainThread} \cup Callers

VARIABLES
  pc,         \* main thread: position in main()
  phases,     \* main thread: the calls of main() that have returned, in order
  args,       \* struct Args: the options given on the command line
  argsState,  \* ArgParser: "unparsed", "live", "released"
  exitCode,   \* <<>> while the process runs, then <<its exit code>>
  mainLogger, \* IniLogger::mainLogger
  registered, \* spdlog registry: is a logger named "main" registered
  lpc,        \* per thread: position in IniLogger::log
  calls,      \* per caller thread: calls of IniLogger::log made
  inited,     \* threads that have executed the initialisation branch of log
  wrote,      \* per thread: the logger instance of its last write
  units,      \* ThdDispatcher: the Compilation Units
  artifact,   \* per kind: output file "none", "partial", "complete"
  result,     \* Dispatch Result
  cancel,     \* shared cancellation signal
  dispatched, \* ThdDispatcher: dispatch() has run
  joins       \* calls of join() that have returned

mainVars == <<pc, phases, argsState, exitCode>>
logVars == <<mainLogger, registered, lpc, calls, inited, wrote>>
dispVars == <<units, artifact, result, cancel, dispatched>>
vars == <<pc, phases, args, argsState, exitCode, mainLogger, registered, lpc,
          calls, inited, wrote, units, artifact, result, cancel, dispatched, joins>>

\* ------------------------------------------------------------ CmdArgs.hpp
Configs ==
  [cvJson : Paths, clJson : Paths, version : BOOLEAN, update : BOOLEAN,
   interrupt : BOOLEAN]

\* Variant: an absent optional taken as present.
PresentAlways(p) == TRUE

\* std::optional::has_value of Args::cvJson / Args::clJson
Present(p) == p # "absent"

PathOf(k) == IF k = "cv" THEN args.cvJson ELSE args.clJson

\* ------------------------------------------------------- Compilation Unit
NoUnit == [status |-> "None", stage |-> 0, busy |-> FALSE, err |-> "none"]
NoResult == [status |-> "None", err |-> "none"]

Outstanding(k) == units[k].status \in {"Pending", "Running"}
NoOutstanding == \A k \in Kinds : ~Outstanding(k)

\* The error of the stage that loads the source, by the kind of path.
LoadError(p) ==
  IF p = "missing" THEN "ConfigurationError"
  ELSE IF p = "bad" THEN "RenderError" ELSE "none"

\* The terminal status a Unit's own source determines.
Expected(p) == IF p = "good" THEN "Succeeded" ELSE "Failed"

\* Variant: the raised signal is not consulted when the Unit ends.
DecideIgnoringCancel(outcome) == outcome

\* Execution policy step 3: with interrupt set and the signal raised the Unit
\* ends Interrupted rather than Succeeded/Failed.
Decide(outcome) ==
  IF args.interrupt /\ cancel THEN "Interrupted" ELSE outcome

Finish(k, outcome) ==
  LET st == Decide(outcome)
      er == IF st = "Failed" THEN units[k].err ELSE "none"
  IN /\ units' = [units EXCEPT ![k] = [@ EXCEPT !.status = st, !.busy = FALSE,
                                                 !.err = er]]
     /\ result' = [result EXCEPT ![k] = [status |-> st, err |-> er]]

\* ------------------------------------------------- IniLogger::log (threads)
\* inilogger.cpp:4  if(IniLogger::mainLogger == nullptr): an unguarded read of the
\* global; the thread enters the initialisation branch or goes on to the write.
LogCheck(t) ==
  /\ lpc[t] = "check"
  /\ IF mainLogger = nullptr
       THEN /\ lpc' = [lpc EXCEPT ![t] = "create"]
            /\ inited' = inited \cup {t}
       ELSE /\ lpc' = [lpc EXCEPT ![t] = "write"]
            /\ inited' = inited
  /\ UNCHANGED <<mainLogger, registered, calls, wrote>>

\* inilogger.cpp:5  mainLogger = spdlog::stdout_logger_st("main"): the registry
\* refuses a second logger named "main" by throwing, and log does not catch.
LogCreate(t) ==
  /\ lpc[t] = "create"
  /\ IF registered
       THEN /\ lpc' = [lpc EXCEPT ![t] = "thrown"]
            /\ UNCHANGED <<mainLogger, registered>>
       ELSE /\ mainLogger' = 1
            /\ registered' = TRUE
            /\ lpc' = [lpc EXCEPT ![t] = "pattern"]
  /\ UNCHANGED <<calls, inited, wrote>>

\* inilogger.cpp:6  mainLogger->set_pattern(...)
LogSetPattern(t) ==
  /\ lpc[t] = "pattern"
  /\ lpc' = [lpc EXCEPT ![t] = "write"]
  /\ UNCHANGED <<mainLogger, registered, calls, inited, wrote>>

\* inilogger.cpp:9  mainLogger->log(level, message)
LogWrite(t) ==
  /\ lpc[t] = "write"
  /\ wrote' = [wrote EXCEPT ![t] = mainLogger]
  /\ lpc' = [lpc EXCEPT ![t] = "returned"]
  /\ UNCHANGED <<mainLogger, registered, calls, inited>>

\* An exception that left log ends the process (no handler in any caller).
Crashed == \E t \in Threads : lpc[t] = "thrown"

\* ------------------------------------------------ ThdDispatcher (workers)
\* A process that has ended runs no thread.
Alive == exitCode = <<>> /\ ~Crashed

\* Variant: a Failed Unit is started again.
UnitStartAgain(k) ==
  /\ Alive
  /\ units[k].status \in {"Pending", "Failed"}
  /\ units' = [units EXCEPT ![k] = [@ EXCEPT !.status = "Running", !.stage = 0]]
  /\ UNCHANGED <<artifact, result, cancel, dispatched>>

\* Execution policy step 1: Pending -> Running.
UnitStart(k) ==
  /\ Alive
  /\ units[k].status = "Pending"
  /\ units' = [units EXCEPT ![k] = [@ EXCEPT !.status = "Running"]]
  /\ UNCHANGED <<artifact, result, cancel, dispatched>>

\* Execution policy step 3: the checkpoint between two rendering stages, where a
\* Unit whose Configuration has interrupt set observes the raised signal.
UnitCheckpoint(k) ==
  /\ Alive
  /\ units[k].status = "Running" /\ ~units[k].busy
  /\ units[k].err = "none"
  /\ units[k].stage >= 1 /\ units[k].stage < NumStages
  /\ args.interrupt /\ cancel
  /\ Finish(k, "Interrupted")
  /\ UNCHANGED <<artifact, cancel, dispatched>>

\* Execution policy step 2: the backend enters the next rendering stage (past the
\* checkpoint, if one precedes it); the last stage writes the output artifact.
StageBegin(k) ==
  /\ Alive
  /\ units[k].status = "Running" /\ ~units[k].busy
  /\ units[k].err = "none"
  /\ units[k].stage < NumStages
  /\ units[k].stage >= 1 => ~(args.interrupt /\ cancel)
  /\ units' = [units EXCEPT ![k] = [@ EXCEPT !.busy = TRUE]]
  /\ artifact' = IF units[k].stage + 1 = NumStages
                   THEN [artifact EXCEPT ![k] = "partial"]
                   ELSE artifact
  /\ UNCHANGED <<result, cancel, dispatched>>

\* Execution policy step 2: the stage ends.  The first stage loads the source: a
\* path that resolves to no readable file is a ConfigurationError and a malformed
\* document a RenderError, kept on the Unit; a stage that ends well leaves the
\* Unit at the next checkpoint, the last one with its artifact written.
StageEnd(k) ==
  /\ Alive
  /\ units[k].status = "Running" /\ units[k].busy
  /\ IF units[k].stage = 0 /\ PathOf(k) # "good"
       THEN /\ units' = [units EXCEPT ![k] = [@ EXCEPT !.busy = FALSE,
                                                      !.err = LoadError(PathOf(k))]]
            /\ UNCHANGED artifact
       ELSE /\ units' = [units EXCEPT ![k] = [@ EXCEPT !.stage = @ + 1, !.busy = FALSE]]
            /\ artifact' = IF units[k].stage + 1 = NumStages
                             THEN [artifact EXCEPT ![k] = "complete"]
                             ELSE artifact
  /\ UNCHANGED <<result, cancel, dispatched>>

\* Variant: a failing Unit also fails the Unit running beside it.
UnitFailWithSibling(k) ==
  /\ Alive
  /\ units[k].status = "Running" /\ ~units[k].busy
  /\ units[k].err # "none"
  /\ units' = [j \in Kinds |->
                IF j = k \/ units[j].status = "Running"
                  THEN [units[j] EXCEPT !.status = "Failed", !.busy = FALSE,
                                        !.err = units[k].err]
                  ELSE units[j]]
  /\ result' = [j \in Kinds |->
                IF j = k \/ units[j].status = "Running"
                  THEN [status |-> "Failed", err |-> units[k].err]
                  ELSE result[j]]
  /\ UNCHANGED <<artifact, cancel, dispatched>>

\* Execution policy step 5: on backend error Running -> Failed, the error detail
\* captured for the Dispatch Result.
UnitFail(k) ==
  /\ Alive
  /\ units[k].status = "Running" /\ ~units[k].busy
  /\ units[k].err # "none"
  /\ Finish(k, "Failed")
  /\ UNCHANGED <<artifact, cancel, dispatched>>

\* Execution policy step 5: on backend success Running -> Succeeded.
UnitFinish(k) ==
  /\ Alive
  /\ units[k].status = "Running" /\ ~units[k].busy
  /\ units[k].stage = NumStages
  /\ Finish(k, "Succeeded")
  /\ UNCHANGED <<artifact, cancel, dispatched>>

\* Cancellation semantics: the shared signal is raised from outside the Units
\* (fatal external event or explicit request) while the dispatch is under way.
RaiseCancel ==
  /\ Alive
  /\ dispatched /\ ~cancel
  /\ \E k \in Kinds : Outstanding(k)
  /\ cancel' = TRUE
  /\ UNCHANGED <<units, artifact, result, dispatched>>

\* dispatch(config): one Unit per present source path, submitted without waiting.
dispatch ==
  /\ units' = [k \in Kinds |->
                IF Present(PathOf(k)) THEN [NoUnit EXCEPT !.status = "Pending"]
                ELSE NoUnit]
  /\ dispatched' = TRUE
  /\ UNCHANGED <<artifact, result, cancel>>

\* Variant: join() clears the Units and the Dispatch Result once they ended.
joinAndReset ==
  /\ NoOutstanding
  /\ units' = [k \in Kinds |-> NoUnit]
  /\ result' = [k \in Kinds |-> NoResult]
  /\ UNCHANGED <<artifact, cancel, dispatched>>

\* join(): returns once no submitted Unit is Pending or Running; changes nothing.
join ==
  /\ NoOutstanding
  /\ UNCHANGED dispVars

\* ------------------------------------------------------------- main.cpp
MainOrder == <<"log", "init", "update", "dispatch", "join", "clean", "exit">>

\* main.cpp:7  IniLogger::log(info, "Initialized logger"): the call ...
MainLogCall ==
  /\ pc = "log" /\ lpc[MainThread] = "idle"
  /\ lpc' = [lpc EXCEPT ![MainThread] = "check"]
  /\ pc' = "logging"
  /\ UNCHANGED <<phases, args, argsState, exitCode, mainLogger, registered, calls,
                 inited, wrote, dispVars, joins>>

\* ... its body, run by the main thread ...
MainLogBody(A) ==
  /\ pc = "logging" /\ ~Crashed
  /\ A
  /\ UNCHANGED <<mainVars, args, dispVars, joins>>

\* ... and its return.
MainLogReturn ==
  /\ pc = "logging" /\ lpc[MainThread] = "returned"
  /\ lpc' = [lpc EXCEPT ![MainThread] = "idle"]
  /\ pc' = "init"
  /\ phases' = Append(phases, "log")
  /\ UNCHANGED <<args, argsState, exitCode, mainLogger, registered, calls, inited,
                 wrote, dispVars, joins>>

\* main.cpp:9  ArgParser::init(argc, argv): the Configuration becomes live; with
\* -v/--version the version is printed and the process exits before dispatch.
MainInit ==
  /\ pc = "init"
  /\ argsState' = "live"
  /\ IF args.version
       THEN /\ pc' = "done"
            /\ exitCode' = <<0>>
            /\ phases' = phases \o <<"init", "exit">>
       ELSE /\ pc' = "update"
            /\ exitCode' = exitCode
            /\ phases' = Append(phases, "init")
  /\ UNCHANGED <<args, logVars, dispVars, joins>>

\* main.cpp:11  DllUpdater::update(version): with -u/--update the check runs; an
\* unrecoverable UpdateError is fatal and ends the process before any dispatch.
MainUpdate ==
  /\ pc = "update"
  /\ \E ok \in (IF args.update THEN BOOLEAN ELSE {TRUE}) :
       IF ok
         THEN /\ pc' = "dispatch"
              /\ exitCode' = exitCode
              /\ phases' = Append(phases, "update")
         ELSE /\ pc' = "done"
              /\ exitCode' = <<1>>
              /\ phases' = phases \o <<"update", "exit">>
  /\ UNCHANGED <<args, argsState, logVars, dispVars, joins>>

\* Variant: dispatch() may be called before update() has returned.
MainDispatchEarly ==
  /\ pc \in {"update", "dispatch"}
  /\ dispatch
  /\ pc' = "join"
  /\ phases' = Append(phases, "dispatch")
  /\ UNCHANGED <<args, argsState, exitCode, logVars, joins>>

\* main.cpp:13  ThdDispatcher::dispatch(ArgParser::get())
MainDispatch ==
  /\ pc = "dispatch"
  /\ dispatch
  /\ pc' = "join"
  /\ phases' = Append(phases, "dispatch")
  /\ UNCHANGED <<args, argsState, exitCode, logVars, joins>>

\* Variant: main goes on to clean() without waiting in join().
MainJoinSkipped ==
  /\ pc = "join"
  /\ pc' = "clean"
  /\ phases' = Append(phases, "join")
  /\ joins' = joins + 1
  /\ UNCHANGED <<args, argsState, exitCode, logVars, dispVars>>

\* main.cpp:15  ThdDispatcher::join()
MainJoin ==
  /\ pc = "join"
  /\ join
  /\ pc' = "clean"
  /\ phases' = Append(phases, "join")
  /\ joins' = joins + 1
  /\ UNCHANGED <<args, argsState, exitCode, logVars>>

\* main.cpp:17  ArgParser::clean(): the Configuration is released.
MainClean ==
  /\ pc = "clean"
  /\ argsState' = "released"
  /\ pc' = "return"
  /\ phases' = Append(phases, "clean")
  /\ UNCHANGED <<args, exitCode, logVars, dispVars, joins>>

\* main.cpp:19  return 0;
MainReturn ==
  /\ pc = "return"
  /\ exitCode' = <<0>>
  /\ pc' = "done"
  /\ phases' = Append(phases, "exit")
  /\ UNCHANGED <<args, argsState, logVars, dispVars, joins>>

\* A step of the worker thread of some Unit, while the caller's thread runs on.
WorkerStep(k, A) ==
  /\ A
  /\ UNCHANGED <<mainVars, args, logVars, joins>>

CancelStep ==
  /\ RaiseCancel
  /\ UNCHANGED <<mainVars, args, logVars, joins>>

IdleThreads == [t \in Threads |-> "idle"]

\* The process at the entry of main(), for every command line.
Init ==
  /\ args \in Configs
  /\ pc = "log"
  /\ phases = <<>>
  /\ argsState = "unparsed"
  /\ exitCode = <<>>
  /\ mainLogger = nullptr
  /\ registered = FALSE
  /\ lpc = IdleThreads
  /\ calls = [t \in Callers |-> 0]
  /\ inited = {}
  /\ wrote = [t \in Threads |-> nullptr]
  /\ units = [k \in Kinds |-> NoUnit]
  /\ artifact = [k \in Kinds |-> "none"]
  /\ result = [k \in Kinds |-> NoResult]
  /\ cancel = FALSE
  /\ dispatched = FALSE
  /\ joins = 0

Next ==
  \/ MainLogCall
  \/ MainLogBody(LogCheck(MainThread))
  \/ MainLogBody(LogCreate(MainThread))
  \/ MainLogBody(LogSetPattern(MainThread))
  \/ MainLogBody(LogWrite(MainThread))
  \/ MainLogReturn
  \/ MainInit
  \/ MainUpdate
  \/ MainDispatch
  \/ MainJoin
  \/ MainClean
  \/ MainReturn
  \/ \E k \in Kinds : WorkerStep(k, UnitStart(k))
  \/ \E k \in Kinds : WorkerStep(k, StageBegin(k))
  \/ \E k \in Kinds : WorkerStep(k, StageEnd(k))
  \/ \E k \in Kinds : WorkerStep(k, UnitCheckpoint(k))
  \/ \E k \in Kinds : WorkerStep(k, UnitFail(k))
  \/ \E k \in Kinds : WorkerStep(k, UnitFinish(k))
  \/ CancelStep

Spec == Init /\ [][Next]_vars

\* ------------------------------------- IniLogger::log called by several threads
\* IniLogger::log is a public static function; here NumCallers threads call it,
\* each up to MaxCalls times, with no call made beforehand.
NoArgs ==
  [cvJson |-> "absent", clJson |-> "absent", version |-> FALSE, update |-> FALSE,
   interrupt |-> FALSE]

CallerCall(t) ==
  /\ lpc[t] = "idle" /\ calls[t] < MaxCalls
  /\ lpc' = [lpc EXCEPT ![t] = "check"]
  /\ calls' = [calls EXCEPT ![t] = @ + 1]
  /\ UNCHANGED <<mainLogger, registered, inited, wrote>>

CallerReturn(t) ==
  /\ lpc[t] = "returned"
  /\ lpc' = [lpc EXCEPT ![t] = "idle"]
  /\ UNCHANGED <<mainLogger, registered, calls, inited, wrote>>

CallerBody(t, A) ==
  /\ ~Crashed
  /\ A
  /\ UNCHANGED <<mainVars, args, dispVars, joins>>

LogInit ==
  /\ args = NoArgs
  /\ pc = "threads"
  /\ phases = <<>>
  /\ argsState = "unparsed"
  /\ exitCode = <<>>
  /\ mainLogger = nullptr
  /\ registered = FALSE
  /\ lpc = IdleThreads
  /\ calls = [t \in Callers |-> 0]
  /\ inited = {}
  /\ wrote = [t \in Threads |-> nullptr]
  /\ units = [k \in Kinds |-> NoUnit]
  /\ artifact = [k \in Kinds |-> "none"]
  /\ result = [k \in Kinds |-> NoResult]
  /\ cancel = FALSE
  /\ dispatched = FALSE
  /\ joins = 0

LogNext ==
  \/ \E t \in Callers : CallerBody(t, CallerCall(t))
  \/ \E t \in Callers : CallerBody(t, LogCheck(t))
  \/ \E t \in Callers : CallerBody(t, LogCreate(t))
  \/ \E t \in Callers : CallerBody(t, LogSetPattern(t))
  \/ \E t \in Callers : CallerBody(t, LogWrite(t))
  \/ \E t \in Callers : CallerBody(t, CallerReturn(t))

LogSpec == LogInit /\ [][LogNext]_vars

\* ---------------------------------------------- a client of the dispatcher
\* dispatch() and join() are the dispatcher's public contract; here a client with
\* a live Configuration calls dispatch() once and join() up to MaxJoins times, in
\* any order (join() before dispatch() included).
ClientDispatch ==
  /\ pc = "client" /\ ~dispatched
  /\ dispatch
  /\ UNCHANGED <<mainVars, args, logVars, joins>>

ClientJoin ==
  /\ pc = "client" /\ joins < MaxJoins
  /\ join
  /\ joins' = joins + 1
  /\ UNCHANGED <<mainVars, args, logVars>>

JoinInit ==
  /\ args \in {c \in Configs : ~c.version /\ ~c.update}
  /\ pc = "client"
  /\ phases = <<>>
  /\ argsState = "live"
  /\ exitCode = <<>>
  /\ mainLogger = 1
  /\ registered = TRUE
  /\ lpc = IdleThreads
  /\ calls = [t \in Callers |-> 0]
  /\ inited = {MainThread}
  /\ wrote = [t \in Threads |-> IF t = MainThread THEN 1 ELSE nullptr]
  /\ units = [k \in Kinds |-> NoUnit]
  /\ artifact = [k \in Kinds |-> "none"]
  /\ result = [k \in Kinds |-> NoResult]
  /\ cancel = FALSE
  /\ dispatched = FALSE
  /\ joins = 0

JoinNext ==
  \/ ClientDispatch
  \/ ClientJoin
  \/ \E k \in Kinds : WorkerStep(k, UnitStart(k))
  \/ \E k \in Kinds : WorkerStep(k, StageBegin(k))
  \/ \E k \in Kinds : WorkerStep(k, StageEnd(k))
  \/ \E k \in Kinds : WorkerStep(k, UnitCheckpoint(k))
  \/ \E k \in Kinds : WorkerStep(k, UnitFail(k))
  \/ \E k \in Kinds : WorkerStep(k, UnitFinish(k))
  \/ CancelStep

JoinSpec == JoinInit /\ [][JoinNext]_vars

\* ------------------------------------------------------------------ claims
StatusOf(k) == units[k].status
Submitted == {k \in Kinds : StatusOf(k) # "None"}
Given == {k \in Kinds : PathOf(k) # "absent"}
Returned == pc = "done" /\ dispatched
IsPrefix(s, t) == Len(s) <= Len(t) /\ \A i \in 1..Len(s) : s[i] = t[i]

\* C1: once join() has returned no Unit is Pending or Running: not when
\* ArgParser::clean() runs, not after it, and not when the process has returned.
C1_JoinWaitsForUnits ==
  (joins > 0 \/ argsState = "released" \/ exitCode # <<>>) => NoOutstanding

\* C1 witness: clean() has run after join() waited for two Units.
C1_Witness ==
  /\ argsState = "released"
  /\ \A k \in Kinds : StatusOf(k) \in Terminal

\* C2: when main has returned, the exit code is 0 exactly if every submitted Unit
\* is Succeeded (no Unit at all included), non-zero if one is Failed or Interrupted.
C2_ExitCodeReflectsResult ==
  Returned => (exitCode = <<0>> <=> \A k \in Submitted : StatusOf(k) = "Succeeded")

\* C3: a Unit's status changes only Pending -> Running and Running -> Succeeded,
\* Failed or Interrupted (a Unit is created Pending); a terminal status never changes.
C3_StatusMonotonic ==
  [][\A k \in Kinds :
       \/ StatusOf(k)' = StatusOf(k)
       \/ StatusOf(k) = "None" /\ StatusOf(k)' = "Pending"
       \/ StatusOf(k) = "Pending" /\ StatusOf(k)' = "Running"
       \/ StatusOf(k) = "Running" /\ StatusOf(k)' \in Terminal]_vars

\* C3 witness: one Unit is terminal while the other still runs and the
\* cancellation signal is raised.
C3_Witness ==
  /\ StatusOf("cv") = "Failed"
  /\ StatusOf("cl") = "Running"
  /\ cancel

\* C4: a Unit's terminal status, and the status and error the Dispatch Result
\* records for it, are those of its own source (Succeeded for a valid document,
\* Failed with its own error otherwise) or Interrupted by the raised signal,
\* whatever the other Unit did.
C4_UnitsIndependent ==
  \A k \in Kinds :
    StatusOf(k) \in Terminal =>
      /\ result[k] = [status |-> StatusOf(k), err |-> units[k].err]
      /\ \/ StatusOf(k) = "Interrupted" /\ args.interrupt /\ cancel
         \/ /\ StatusOf(k) = Expected(PathOf(k))
            /\ units[k].err = LoadError(PathOf(k))

\* C4 witness: both Units ran, one failed and the other succeeded.
C4_Witness ==
  /\ StatusOf("cv") = "Failed"
  /\ StatusOf("cl") = "Succeeded"
  /\ result["cv"].status = "Failed"
  /\ result["cl"].status = "Succeeded"

C6_InitialisedOnce ==
  /\ Cardinality(inited) <= 1
  /\ ~Crashed
  /\ \A t \in Threads : wrote[t] \in {nullptr, mainLogger}

\* C7: dispatch() creates a Unit exactly for the source paths that are present;
\* with none present the Dispatch Result after join() is empty and the exit code
\* 0; with one present exactly one Unit is terminal after join(), and it is
\* Succeeded when its document is valid and the run was not cancelled.
C7_OneUnitPerPresentPath ==
  /\ Submitted = (IF dispatched THEN Given ELSE {})
  /\ (joins > 0 /\ Given = {}) =>
       /\ \A k \in Kinds : result[k] = NoResult
       /\ pc = "done" => exitCode = <<0>>
  /\ (joins > 0 /\ Cardinality(Given) = 1) =>
       /\ Cardinality({k \in Kinds : StatusOf(k) \in Terminal}) = 1
       /\ \A k \in Given :
            (PathOf(k) = "good" /\ ~(args.interrupt /\ cancel)) =>
              (StatusOf(k) = "Succeeded" /\ result[k].status = "Succeeded")

\* C7 witness: main returned after a run with the CV path alone, Succeeded.
C7_Witness ==
  /\ pc = "done"
  /\ StatusOf("cv") = "Succeeded"
  /\ StatusOf("cl") = "None"

\* C8: when main has returned from a run that was not cancelled, the Unit of a
\* path that resolves to no readable file is Failed, the Dispatch Result records
\* Failed with ConfigurationError for it, and the exit code is not 0.
C8_MissingPathFailsRun ==
  \A k \in Kinds :
    (Returned /\ ~cancel /\ PathOf(k) = "missing") =>
      /\ StatusOf(k) = "Failed"
      /\ result[k] = [status |-> "Failed", err |-> "ConfigurationError"]
      /\ exitCode # <<0>>

C10_PhaseOrder ==
  /\ \/ IsPrefix(phases, MainOrder)
     \/ phases \in {<<"log", "init", "exit">>, <<"log", "init", "update", "exit">>}
  /\ Submitted # {} =>
       /\ Len(phases) >= 4 /\ phases[3] = "update" /\ phases[4] = "dispatch"
       /\ mainLogger # nullptr /\ inited = {MainThread}
  /\ Len(phases) >= 1 => mainLogger # nullptr
  /\ argsState = "released" => (joins > 0 /\ NoOutstanding)

\* C10 witness: a complete run of main with a Unit that ended.
C10_Witness ==
  /\ phases = MainOrder
  /\ \E k \in Kinds : StatusOf(k) \in Terminal

====
